---------------------------- MODULE Spec2Model ----------------------------
(***************************************************************************)
(* Model of bot.py: a Telegram bot with one command, /stats, that fetches  *)
(* Monero mining-pool statistics, an XMR/USD price and a USD/GHS rate over *)
(* HTTP and edits a provisional chat message into a report.                *)
(*                                                                         *)
(* Conventions.                                                            *)
(*  - An environment variable is a record [set, val]: os.environ.get gives *)
(*    None (set = FALSE) or a string (val; the wallet is a tuple of        *)
(*    characters because the report slices it).                            *)
(*  - A JSON member of a response is a record [k, v]: k is its kind        *)
(*    ("missing" when the key is absent) and v its number or its length.   *)
(*  - A fetcher's outcome is a record whose r is "value", "none" (the      *)
(*    fetcher returned None) or "raised" (an exception left the fetcher).  *)
(*  - Amounts are fixed-point integers: XMR in 10^-8; prices and rates are *)
(*    whole numbers, so money is in 10^-8 before formatting and in cents   *)
(*    (10^-2) after it.                                                    *)
(*  - Calls to the Telegram API (send_message, edit_message_text) succeed; *)
(*    the outcomes that are enumerated are those of the three HTTP APIs    *)
(*    and of the Application object used by main.                          *)
(***************************************************************************)
EXTENDS Integers, Sequences, FiniteSets, TLC

\* ------------------------------------------------------------------ bounds
\* Number of /stats commands handled while the listener runs.
MaxInvocations == 2
\* Largest number of entries in the pool's "workers" list.
MaxWorkers == 2

\* Sample values of amtDue (atomic units, 10^-12 XMR).
AmtDueValues == {0, 4999, 15001, 100000000, 2000000000}
\* Sample values of the price (USD per XMR) and of the rate (GHS per USD).
PriceValues == {0, 1, 149}
RateValues == {0, 1, 12}
\* Sample value of the pool's "hash" member.
HashValues == {1200}

\* ------------------------------------------------------- program constants
\* pending_balance_atomic / 1_000_000_000_000, then round(.., 8): the two
\* together divide the atomic amount by 10^(12-8) and round to an integer
\* number of 10^-8 XMR.
AtomicExp == 12
BalanceDecimals == 8
MoneyDecimals == 2
SuffixLen == 6
DEFAULT_PORT == 8080
PLACEHOLDER_KEY == "YOUR_EXCHANGERATE_API_KEY_HERE"

WAIT_TEXT == "Fetching your Monero mining stats, please wait..."
FAIL_TEXT == "Sorry, I couldn't fetch your mining pool stats right now. Please try again later."
NO_PRICE_TEXT == "Could not fetch XMR price to show value in fiat."
NO_RATE_TEXT == "Could not fetch GHS exchange rate to show value in Cedis."
RULE_TEXT == "------------------------------------"
ATTRIBUTION_TEXT == "Data from SupportXMR & CoinGecko."

\* ----------------------------------------------------------------- helpers
RECURSIVE Pow10(_)
Pow10(n) == IF n = 0 THEN 1 ELSE 10 * Pow10(n - 1)

\* Round the non-negative rational n/d to the nearest integer, ties to even
\* (Python's round() and its 'f' format both round to nearest).
RoundDiv(n, d) ==
    LET q == n \div d
        r == n % d
    IN  IF 2 * r > d \/ (2 * r = d /\ q % 2 = 1) THEN q + 1 ELSE q

\* s[-k:] on a tuple of characters.
Suffix(s, k) == IF Len(s) <= k THEN s ELSE SubSeq(s, Len(s) - k + 1, Len(s))

\* "not X" for an environment value: None and the empty string are falsy.
\* StrMissing is for values held as strings, SeqMissing for the wallet.
StrMissing(e) == ~e.set \/ e.val = ""
SeqMissing(e) == ~e.set \/ e.val = <<>>

J(k, v) == [k |-> k, v |-> v]
JMissing == J("missing", 0)

\* dict.get(key, default): the default only replaces an absent key; a
\* member that is present (JSON null included) is returned as it is.
DictGet(member, default) == IF member.k = "missing" THEN default ELSE member

\* --------------------------------------------------------- HTTP responses
\* What requests.get / raise_for_status / response.json() can produce:
\* transport "error" and "timeout" raise from requests.get, "http_error"
\* from raise_for_status; body "not_json" makes response.json() raise,
\* "array" stands for any JSON value that is not an object.
TransportFailures == {"error", "timeout", "http_error"}
NonObjectBodies == {"not_json", "array"}

HashMembers ==
    {JMissing, J("int", -5), J("text", 0), J("superscript", 0)}
      \cup {J("int", v) : v \in HashValues}
      \cup {J("digits", v) : v \in HashValues}
WorkersMembers ==
    {JMissing, J("int", 1)} \cup {J("list", n) : n \in 0..MaxWorkers}
AmtDueMembers ==
    {JMissing, J("text", 0), J("null", 0)} \cup {J("int", a) : a \in AmtDueValues}

PoolResponse(t, b, h, w, a) ==
    [transport |-> t, body |-> b, hash |-> h, workers |-> w, amtDue |-> a]
PoolResponses ==
    {PoolResponse(t, "none", JMissing, JMissing, JMissing) : t \in TransportFailures}
      \cup {PoolResponse("ok", b, JMissing, JMissing, JMissing) : b \in NonObjectBodies}
      \cup {PoolResponse("ok", "object", h, w, a) :
               h \in HashMembers, w \in WorkersMembers, a \in AmtDueMembers}

\* A response of the price or of the rate API: outer is the member looked
\* up first ("monero", "conversion_rates"): "missing", "object" or "other"
\* (present but not an object); inner is the member looked up in it ("usd",
\* "GHS").
QuoteResponse(t, b, o, i) == [transport |-> t, body |-> b, outer |-> o, inner |-> i]
QuoteMembers(values) ==
    {JMissing, J("null", 0), J("text", 0)} \cup {J("int", v) : v \in values}
QuoteResponses(values) ==
    {QuoteResponse(t, "none", "missing", JMissing) : t \in TransportFailures}
      \cup {QuoteResponse("ok", b, "missing", JMissing) : b \in NonObjectBodies}
      \cup {QuoteResponse("ok", "object", o, JMissing) : o \in {"missing", "other"}}
      \cup {QuoteResponse("ok", "object", "object", i) : i \in QuoteMembers(values)}

\* ----------------------------------------------------------------- results
None == [r |-> "none", k |-> "none", v |-> 0]
Raised == [r |-> "raised", k |-> "none", v |-> 0]
Value(member) == [r |-> "value", k |-> member.k, v |-> member.v]

NoStats == [r |-> "none", hashrate |-> 0, workers |-> 0, pending_xmr |-> 0]
StatsRaised == [r |-> "raised", hashrate |-> 0, workers |-> 0, pending_xmr |-> 0]
Stats(h, w, p) == [r |-> "value", hashrate |-> h, workers |-> w, pending_xmr |-> p]

\* ---------------------------------------------------------------- fetchers
\* len(x) raises TypeError unless x is sized.
HasLen(member) == member.k \in {"list", "text", "digits", "superscript"}
\* x / 1_000_000_000_000 raises TypeError unless x is a number.
IsNumber(member) == member.k = "int"
\* str(x).isdigit(): a non-negative integer or a string of digits.
StrIsDigit(member) ==
    \/ member.k = "int" /\ member.v >= 0
    \/ member.k \in {"digits", "superscript"}
\* int(x) raises ValueError on a digit that is not a decimal digit.
IntRaises(member) == member.k = "superscript"

\* Variant of get_xmr_pool_stats that indexes the members (data["hash"],
\* ...) instead of giving them defaults: an absent member is a KeyError.
get_xmr_pool_stats_indexed(resp) ==
    IF resp.transport # "ok" THEN NoStats
    ELSE IF resp.body = "not_json" THEN NoStats
    ELSE IF resp.body # "object" THEN StatsRaised
    ELSE IF "missing" \in {resp.hash.k, resp.workers.k, resp.amtDue.k} THEN NoStats
    ELSE IF ~HasLen(resp.workers) \/ ~IsNumber(resp.amtDue) THEN NoStats
    ELSE IF StrIsDigit(resp.hash) /\ IntRaises(resp.hash) THEN NoStats
    ELSE Stats(IF StrIsDigit(resp.hash) THEN resp.hash.v ELSE 0,
               resp.workers.v,
               RoundDiv(resp.amtDue.v, Pow10(AtomicExp - BalanceDecimals)))

get_xmr_pool_stats(resp) ==
    IF resp.transport # "ok" THEN NoStats            \* RequestException
    ELSE IF resp.body = "not_json" THEN NoStats      \* JSONDecodeError
    ELSE IF resp.body # "object" THEN StatsRaised    \* AttributeError
    ELSE
      LET hashrate == DictGet(resp.hash, J("int", 0))
          workers == DictGet(resp.workers, J("list", 0))
          pending_balance_atomic == DictGet(resp.amtDue, J("int", 0))
      IN  IF ~HasLen(workers) THEN NoStats           \* TypeError
          ELSE IF ~IsNumber(pending_balance_atomic) THEN NoStats  \* TypeError
          ELSE IF StrIsDigit(hashrate) /\ IntRaises(hashrate) THEN NoStats  \* ValueError
          ELSE Stats(IF StrIsDigit(hashrate) THEN hashrate.v ELSE 0,
                     workers.v,
                     RoundDiv(pending_balance_atomic.v,
                              Pow10(AtomicExp - BalanceDecimals)))

\* data.get(outer, {}).get(inner), shared by the price and rate fetchers.
QuoteLookup(resp) ==
    IF resp.transport # "ok" THEN None               \* RequestException
    ELSE IF resp.body = "not_json" THEN None         \* JSONDecodeError
    ELSE IF resp.body # "object" THEN Raised         \* AttributeError
    ELSE IF resp.outer = "missing" THEN None         \* {}.get(..) is None
    ELSE IF resp.outer # "object" THEN Raised        \* AttributeError
    ELSE IF resp.inner.k \in {"missing", "null"} THEN None
    ELSE Value(resp.inner)

get_xmr_to_usd_price(resp) == QuoteLookup(resp)

\* Variant of the guard that forgets the placeholder.
KeyUnusable_NoPlaceholder(api_key) == StrMissing(api_key)

\* The guard of get_usd_to_ghs_rate: no request is made with such a key.
KeyUnusable(api_key) == StrMissing(api_key) \/ api_key.val = PLACEHOLDER_KEY

\* resp is only looked at when a request is made.
get_usd_to_ghs_rate(api_key, resp) ==
    IF KeyUnusable(api_key) THEN None ELSE QuoteLookup(resp)

\* Number of GETs get_usd_to_ghs_rate issues.
RateRequests(api_key) == IF KeyUnusable(api_key) THEN 0 ELSE 1

\* ------------------------------------------------------------------ report
\* "if x:" on a fetched value: None and the number 0 are falsy, a non-empty
\* string is truthy.
Truthy(x) == x.r = "value" /\ ~(x.k = "int" /\ x.v = 0)
\* float * x raises TypeError unless x is a number.
Multiplies(x) == x.k = "int"

\* A line of the report: its fixed text (the part before the formatted
\* number, when it has one), the number as formatted, the wallet suffix.
Line(text, amt) == [text |-> text, amt |-> amt, suffix |-> <<>>]
HeaderLine(wallet) ==
    [text |-> "Monero Mining Stats for ...", amt |-> 0,
     suffix |-> Suffix(wallet, SuffixLen)]

\* f"{x:.2f}" of an amount held in 10^-8: the amount in cents.
Format2f(x) == RoundDiv(x, Pow10(BalanceDecimals - MoneyDecimals))

\* pending_usd = pool_stats['pending_xmr'] * xmr_usd_price, in 10^-8 USD.
PendingUsd(pool_stats, xmr_usd_price) == pool_stats.pending_xmr * xmr_usd_price.v
\* Variant of PendingGhs that converts the USD amount as displayed (rounded
\* to cents) instead of the unrounded product.
PendingGhs_FromDisplayed(pending_usd, usd_ghs_rate) ==
    Format2f(pending_usd) * Pow10(BalanceDecimals - MoneyDecimals) * usd_ghs_rate.v

\* pending_ghs = pending_usd * usd_ghs_rate, in 10^-8 GHS.
PendingGhs(pending_usd, usd_ghs_rate) == pending_usd * usd_ghs_rate.v

\* Variant of FiatLines with the rate test beside the price test instead
\* of inside it.
FiatLines_Unnested(pool_stats, xmr_usd_price, usd_ghs_rate) ==
    (IF Truthy(xmr_usd_price)
     THEN <<Line("Value (USD)", Format2f(PendingUsd(pool_stats, xmr_usd_price)))>>
     ELSE <<Line(NO_PRICE_TEXT, 0)>>)
    \o (IF Truthy(xmr_usd_price) /\ Truthy(usd_ghs_rate)
        THEN <<Line("Value (GHS)",
                    Format2f(PendingGhs(PendingUsd(pool_stats, xmr_usd_price),
                                        usd_ghs_rate)))>>
        ELSE <<Line(NO_RATE_TEXT, 0)>>)

\* Variant of FiatLines that leaves the GHS line out silently.
FiatLines_NoRateNote(pool_stats, xmr_usd_price, usd_ghs_rate) ==
    IF Truthy(xmr_usd_price)
    THEN LET pending_usd == PendingUsd(pool_stats, xmr_usd_price)
         IN  <<Line("Value (USD)", Format2f(pending_usd))>> \o
             (IF Truthy(usd_ghs_rate)
              THEN <<Line("Value (GHS)",
                          Format2f(PendingGhs(pending_usd, usd_ghs_rate)))>>
              ELSE <<>>)
    ELSE <<Line(NO_PRICE_TEXT, 0)>>

\* The lines stats_command appends after the pending balance.
FiatLines(pool_stats, xmr_usd_price, usd_ghs_rate) ==
    IF Truthy(xmr_usd_price)
    THEN LET pending_usd == PendingUsd(pool_stats, xmr_usd_price)
         IN  <<Line("Value (USD)", Format2f(pending_usd))>> \o
             (IF Truthy(usd_ghs_rate)
              THEN <<Line("Value (GHS)",
                          Format2f(PendingGhs(pending_usd, usd_ghs_rate)))>>
              ELSE <<Line(NO_RATE_TEXT, 0)>>)
    ELSE <<Line(NO_PRICE_TEXT, 0)>>

\* Building the report raises TypeError when a truthy price or rate is not
\* a number.
ReportRaises(xmr_usd_price, usd_ghs_rate) ==
    /\ Truthy(xmr_usd_price)
    /\ \/ ~Multiplies(xmr_usd_price)
       \/ Truthy(usd_ghs_rate) /\ ~Multiplies(usd_ghs_rate)

message_parts(wallet, pool_stats, xmr_usd_price, usd_ghs_rate) ==
    <<HeaderLine(wallet),
      Line(RULE_TEXT, 0),
      Line("Workers Online", pool_stats.workers),
      Line("Current Hashrate", pool_stats.hashrate),
      Line("Pending Balance", pool_stats.pending_xmr)>>
    \o FiatLines(pool_stats, xmr_usd_price, usd_ghs_rate)
    \o <<Line(RULE_TEXT, 0), Line(ATTRIBUTION_TEXT, 0)>>

\* The text of a message: a fixed string or the joined lines of a report.
FixedText(t) == [fixed |-> t, lines |-> <<>>]
ReportText(lines) == [fixed |-> "", lines |-> lines]
Message(op, id, text) == [op |-> op, message_id |-> id, text |-> text]

\* "if not pool_stats": a returned record is a non-empty dict, so only
\* None is falsy.
PoolUnavailable(pool_stats) == pool_stats.r # "value"

\* The edit that ends stats_command.
FinalEdit(id, wallet, pool_stats, xmr_usd_price, usd_ghs_rate) ==
    IF PoolUnavailable(pool_stats)
    THEN Message("edit", id, FixedText(FAIL_TEXT))
    ELSE Message("edit", id,
                 ReportText(message_parts(wallet, pool_stats, xmr_usd_price,
                                          usd_ghs_rate)))

\* ------------------------------------------------------------ configuration
Unset == [set |-> FALSE, val |-> ""]
Str(s) == [set |-> TRUE, val |-> s]
UnsetSeq == [set |-> FALSE, val |-> <<>>]
WALLET == <<"4", "8", "a", "B", "c", "D", "e", "F">>

Configs ==
    [TELEGRAM_BOT_TOKEN : {Unset, Str(""), Str("123:token")},
     XMR_WALLET_ADDRESS : {UnsetSeq, [set |-> TRUE, val |-> <<>>],
                           [set |-> TRUE, val |-> WALLET]},
     WEBHOOK_DOMAIN : {Unset, Str(""), Str("bot.example.com")},
     EXCHANGERATE_API_KEY : {Unset, Str(""), Str(PLACEHOLDER_KEY), Str("k3y")},
     PORT : {Unset, Str("10000")}]

\* PORT = int(os.environ.get("PORT", "8080")).
PORT(config) == IF config.PORT.set THEN 10000 ELSE DEFAULT_PORT

\* Variant of the checks without the one on the webhook domain.
ConfigAborts_NoDomain(config) ==
    \/ StrMissing(config.TELEGRAM_BOT_TOKEN)
    \/ SeqMissing(config.XMR_WALLET_ADDRESS)

\* The three checks main returns on.
ConfigAborts(config) ==
    \/ StrMissing(config.TELEGRAM_BOT_TOKEN)
    \/ SeqMissing(config.XMR_WALLET_ADDRESS)
    \/ StrMissing(config.WEBHOOK_DOMAIN)

\* ------------------------------------------------------------------- state
VARIABLES
    cfg,                      \* the module-level configuration
    mainpc,                   \* where main() is
    application,              \* the Application main builds and drives
    initialized_successfully, \* main's flag
    hpc,                      \* where the current stats_command is
    invocations,              \* /stats commands received so far
    chat,                     \* message operations of the current invocation
    processing_message,       \* message_id of the provisional message
    poolResp,                 \* the pool's response to this invocation
    pool_stats, xmr_usd_price, usd_ghs_rate,  \* stats_command's locals
    requests                  \* GETs issued per fetcher in this invocation

vars == <<cfg, mainpc, application, initialized_successfully, hpc, invocations,
          chat, processing_message, poolResp, pool_stats, xmr_usd_price,
          usd_ghs_rate, requests>>
mainVars == <<mainpc, application, initialized_successfully>>
handlerVars == <<hpc, invocations, chat, processing_message, poolResp,
                 pool_stats, xmr_usd_price, usd_ghs_rate, requests>>
locals == <<poolResp, pool_stats, xmr_usd_price, usd_ghs_rate>>

NoApplication ==
    [built |-> FALSE, handlers |-> {}, initialized |-> FALSE,
     set_webhook_calls |-> 0, webhook_set |-> FALSE,
     run_webhook_calls |-> 0, run_webhook_outcome |-> "none",
     listening |-> FALSE, port |-> 0, shutdown_calls |-> 0]
NoResponse == PoolResponse("none", "none", JMissing, JMissing, JMissing)
NoRequests == [pool |-> 0, price |-> 0, rate |-> 0]

Init ==
    /\ cfg \in Configs
    /\ mainpc = "start"
    /\ application = NoApplication
    /\ initialized_successfully = FALSE
    /\ hpc = "idle"
    /\ invocations = 0
    /\ chat = <<>>
    /\ processing_message = 0
    /\ poolResp = NoResponse
    /\ pool_stats = NoStats
    /\ xmr_usd_price = None
    /\ usd_ghs_rate = None
    /\ requests = NoRequests

\* -------------------------------------------------------------------- main
\* The configuration checks, then Application.builder()...build() and
\* add_handler.
main_start ==
    /\ mainpc = "start"
    /\ IF ConfigAborts(cfg)
       THEN /\ mainpc' = "aborted"
            /\ UNCHANGED application
       ELSE /\ mainpc' = "built"
            /\ application' = [application EXCEPT !.built = TRUE,
                                                  !.handlers = {"stats"}]
    /\ UNCHANGED <<cfg, initialized_successfully, handlerVars>>

\* await application.initialize(): it returns or raises.
main_initialize ==
    /\ mainpc = "built"
    /\ \E ok \in BOOLEAN :
         IF ok
         THEN /\ application' = [application EXCEPT !.initialized = TRUE]
              /\ initialized_successfully' = TRUE
              /\ mainpc' = "initialized"
         ELSE /\ mainpc' = "init_failed"
              /\ UNCHANGED <<application, initialized_successfully>>
    /\ UNCHANGED <<cfg, handlerVars>>

\* set_bot_webhook: any exception of set_webhook or get_webhook_info is
\* logged and swallowed.
set_bot_webhook ==
    /\ mainpc = "initialized"
    /\ \E ok \in BOOLEAN :
         application' = [application EXCEPT
                           !.set_webhook_calls = @ + 1, !.webhook_set = ok]
    /\ mainpc' = "webhook_done"
    /\ UNCHANGED <<cfg, initialized_successfully, handlerVars>>

\* How run_webhook can end: by returning, by SystemExit or by another
\* exception.
RunWebhookEndings == {"return", "SystemExit", "Exception"}

\* Variant of Finally with the shutdown after the try statement instead of
\* in a finally block: only a normal return reaches it.
Finally_AfterTry(app, initialized, outcome) ==
    LET ended == [app EXCEPT !.listening = FALSE,
                             !.run_webhook_outcome = outcome]
    IN  IF initialized /\ outcome = "return"
        THEN [ended EXCEPT !.shutdown_calls = @ + 1]
        ELSE ended

\* The except and finally blocks after run_webhook: whatever the outcome,
\* shutdown() is attempted when the application was initialized; an
\* exception of shutdown() is logged.
Finally(app, initialized, outcome) ==
    LET ended == [app EXCEPT !.listening = FALSE,
                             !.run_webhook_outcome = outcome]
    IN  IF initialized
        THEN [ended EXCEPT !.shutdown_calls = @ + 1]
        ELSE ended

\* await application.run_webhook(...): the listener starts, or the call
\* raises before it does (the except and finally blocks then run).
main_run_webhook ==
    /\ mainpc = "webhook_done"
    /\ \E starts \in BOOLEAN :
         LET called == [application EXCEPT !.run_webhook_calls = @ + 1,
                                           !.port = PORT(cfg)]
         IN  IF starts
             THEN /\ application' = [called EXCEPT !.listening = TRUE]
                  /\ mainpc' = "running"
             ELSE /\ application' = Finally(called, initialized_successfully,
                                            "Exception")
                  /\ mainpc' = "done"
    /\ UNCHANGED <<cfg, initialized_successfully, handlerVars>>

\* run_webhook ends after having listened; each way of ending leads
\* through the finally block. Updates in flight are finished first.
main_run_webhook_ends ==
    /\ mainpc = "running"
    /\ hpc = "idle"
    /\ \E how \in RunWebhookEndings :
         /\ application' = Finally(application, initialized_successfully, how)
         /\ mainpc' = "done"
    /\ UNCHANGED <<cfg, initialized_successfully, handlerVars>>

\* ----------------------------------------------------------- stats_command
\* A /stats update arrives while the listener runs: the handler sends the
\* provisional message.
stats_send ==
    /\ mainpc = "running" /\ application.listening
    /\ "stats" \in application.handlers
    /\ hpc = "idle"
    /\ invocations < MaxInvocations
    /\ invocations' = invocations + 1
    /\ processing_message' = invocations + 1
    /\ chat' = <<Message("send", invocations + 1, FixedText(WAIT_TEXT))>>
    /\ hpc' = "fetch_pool"
    /\ UNCHANGED <<cfg, mainVars, locals, requests>>

\* pool_stats = get_xmr_pool_stats(XMR_WALLET_ADDRESS)
stats_fetch_pool ==
    /\ hpc = "fetch_pool"
    /\ \E resp \in PoolResponses :
         /\ poolResp' = resp
         /\ pool_stats' = get_xmr_pool_stats(resp)
    /\ requests' = [requests EXCEPT !.pool = @ + 1]
    /\ hpc' = IF pool_stats'.r = "raised" THEN "raised" ELSE "fetch_price"
    /\ UNCHANGED <<cfg, mainVars, invocations, chat, processing_message,
                   xmr_usd_price, usd_ghs_rate>>

\* xmr_usd_price = get_xmr_to_usd_price()
stats_fetch_price ==
    /\ hpc = "fetch_price"
    /\ \E resp \in QuoteResponses(PriceValues) :
         xmr_usd_price' = get_xmr_to_usd_price(resp)
    /\ requests' = [requests EXCEPT !.price = @ + 1]
    /\ hpc' = IF xmr_usd_price'.r = "raised" THEN "raised" ELSE "fetch_rate"
    /\ UNCHANGED <<cfg, mainVars, invocations, chat, processing_message,
                   poolResp, pool_stats, usd_ghs_rate>>

\* usd_ghs_rate = get_usd_to_ghs_rate(EXCHANGERATE_API_KEY)
stats_fetch_rate ==
    /\ hpc = "fetch_rate"
    /\ \E resp \in QuoteResponses(RateValues) :
         usd_ghs_rate' = get_usd_to_ghs_rate(cfg.EXCHANGERATE_API_KEY, resp)
    /\ requests' = [requests EXCEPT
                      !.rate = @ + RateRequests(cfg.EXCHANGERATE_API_KEY)]
    /\ hpc' = IF usd_ghs_rate'.r = "raised" THEN "raised" ELSE "reply"
    /\ UNCHANGED <<cfg, mainVars, invocations, chat, processing_message,
                   poolResp, pool_stats, xmr_usd_price>>

\* The rest of stats_command: the failure text, or the report; building the
\* report can raise, and then nothing is edited.
stats_reply ==
    /\ hpc = "reply"
    /\ IF ~PoolUnavailable(pool_stats) /\ ReportRaises(xmr_usd_price, usd_ghs_rate)
       THEN /\ hpc' = "raised"
            /\ UNCHANGED chat
       ELSE /\ chat' = Append(chat,
                         FinalEdit(processing_message, cfg.XMR_WALLET_ADDRESS.val,
                                   pool_stats, xmr_usd_price, usd_ghs_rate))
            /\ hpc' = "replied"
    /\ UNCHANGED <<cfg, mainVars, invocations, processing_message, locals,
                   requests>>

\* The coroutine is over (it returned or its exception reached the
\* framework); its locals are gone.
stats_end ==
    /\ hpc \in {"replied", "raised"}
    /\ hpc' = "idle"
    /\ chat' = <<>>
    /\ processing_message' = 0
    /\ poolResp' = NoResponse
    /\ pool_stats' = NoStats
    /\ xmr_usd_price' = None
    /\ usd_ghs_rate' = None
    /\ requests' = NoRequests
    /\ UNCHANGED <<cfg, mainVars, invocations>>

Next ==
    \/ main_start
    \/ main_initialize
    \/ set_bot_webhook
    \/ main_run_webhook
    \/ main_run_webhook_ends
    \/ stats_send
    \/ stats_fetch_pool
    \/ stats_fetch_price
    \/ stats_fetch_rate
    \/ stats_reply
    \/ stats_end

Spec == Init /\ [][Next]_vars

\* ================================================================== claims
\* Vocabulary of the claims, stated on the state rather than through the
\* operators above.
Ended == hpc \in {"replied", "raised"}
LastOp == chat[Len(chat)]
ReportLines == LastOp.text.lines
HasLine(t) == \E i \in DOMAIN ReportLines : ReportLines[i].text = t
CountLine(t) == Cardinality({i \in DOMAIN ReportLines : ReportLines[i].text = t})
ReportDelivered ==
    /\ hpc = "replied"
    /\ LastOp.op = "edit"
    /\ LastOp.message_id = processing_message
    /\ LastOp.text.fixed = ""
    /\ Len(ReportLines) > 0
FailureDelivered ==
    /\ hpc = "replied"
    /\ LastOp = Message("edit", processing_message, FixedText(FAIL_TEXT))

PoolOk == pool_stats.r = "value"
PositiveNumber(x) == x.r = "value" /\ x.k = "int" /\ x.v > 0
KeyAbsentOrPlaceholder ==
    \/ ~cfg.EXCHANGERATE_API_KEY.set
    \/ cfg.EXCHANGERATE_API_KEY.val \in {"", PLACEHOLDER_KEY}

\* The pool fetch failed: transport error, non-success status, or a body
\* that is not a JSON object.
PoolFetchFailed ==
    /\ poolResp # NoResponse
    /\ poolResp.transport # "ok" \/ poolResp.body # "object"
\* get_xmr_pool_stats has been called and is over.
PoolCalled == poolResp # NoResponse
\* get_usd_to_ghs_rate has been called and is over.
RateCalled ==
    \/ hpc \in {"reply", "replied"}
    \/ hpc = "raised" /\ pool_stats.r # "raised" /\ xmr_usd_price.r # "raised"

\* C1 (as stated): whenever the pool fetch fails for any reason, the last
\* message operation of the invocation is the edit of the provisional
\* message to the fixed failure text, whatever the other fetchers do.
C1_FailureTextOnPoolFailure ==
    (Ended /\ PoolFetchFailed) => FailureDelivered

\* C2 (as stated): every invocation sends the provisional message once
\* before any fetch, and ends with exactly one edit of that message and
\* nothing after it; no invocation ends while still fetching.
C2_EveryInvocationReplies ==
    /\ hpc \in {"fetch_pool", "fetch_price", "fetch_rate", "reply"} =>
         chat = <<Message("send", processing_message, FixedText(WAIT_TEXT))>>
    /\ hpc = "idle" => requests = NoRequests
    /\ Ended =>
         /\ hpc = "replied"
         /\ Len(chat) = 2
         /\ chat[1] = Message("send", processing_message, FixedText(WAIT_TEXT))
         /\ chat[2].op = "edit"
         /\ chat[2].message_id = processing_message

\* C3 (as stated): none of the three fetchers ever lets an exception reach
\* stats_command; each returns a value or None.
C3_FetchersNeverRaise ==
    /\ pool_stats.r # "raised"
    /\ xmr_usd_price.r # "raised"
    /\ usd_ghs_rate.r # "raised"

\* The three members are present in a JSON object and have the expected
\* types.
AllFieldsWellTyped ==
    /\ poolResp.transport = "ok" /\ poolResp.body = "object"
    /\ poolResp.hash.k \in {"int", "digits"}
    /\ poolResp.workers.k = "list"
    /\ poolResp.amtDue.k = "int"
\* C4 (as stated): get_xmr_pool_stats returns a populated record only when
\* hash, workers and amtDue were all present and well-typed in the
\* response, and returns unavailable otherwise.
C4_UnavailableUnlessAllFields ==
    PoolCalled => (PoolOk <=> AllFieldsWellTyped)

\* What the response, read member by member, lets the fetcher return.
C4_Usable ==
    /\ poolResp.transport = "ok" /\ poolResp.body = "object"
    /\ poolResp.workers.k \in {"missing", "list", "text"}
    /\ poolResp.amtDue.k \in {"missing", "int"}
    /\ poolResp.hash.k # "superscript"
C4_Hashrate ==
    IF \/ poolResp.hash.k = "digits"
       \/ poolResp.hash.k = "int" /\ poolResp.hash.v >= 0
    THEN poolResp.hash.v ELSE 0
C4_Workers == IF poolResp.workers.k = "missing" THEN 0 ELSE poolResp.workers.v
C4_Atomic == IF poolResp.amtDue.k = "missing" THEN 0 ELSE poolResp.amtDue.v
\* C4 (amended): get_xmr_pool_stats returns a populated record exactly when
\* the response is a JSON object whose workers member is absent or sized,
\* whose amtDue member is absent or a number and whose hash member is not a
\* string of non-decimal digits; an absent member counts as its default
\* (hash 0, workers [], amtDue 0), a hash that is not a string of digits
\* gives hashrate 0, and every other value of the record is derived from
\* the response: workers is the length, pending_xmr is amtDue / 10^12
\* rounded to 8 decimals.
C4_DefaultsForMissingFields ==
    PoolCalled =>
      /\ PoolOk <=> C4_Usable
      /\ PoolOk =>
           /\ pool_stats.hashrate = C4_Hashrate
           /\ pool_stats.workers = C4_Workers
           /\ pool_stats.pending_xmr = RoundDiv(C4_Atomic, 10000)
      /\ (~PoolOk /\ pool_stats.r # "raised") => pool_stats = NoStats
\* A record was returned although the response had no hash, no workers and
\* no amtDue member.
C4_Witness ==
    /\ PoolCalled /\ PoolOk
    /\ poolResp.hash.k = "missing"
    /\ poolResp.workers.k = "missing"
    /\ poolResp.amtDue.k = "missing"
    /\ pool_stats = Stats(0, 0, 0)

\* C5: whenever the pool fetch succeeds and the price fetch is unavailable,
\* the final report has the line "Could not fetch XMR price to show value
\* in fiat." exactly once and no "Value (USD)" line, no "Value (GHS)" line
\* and no rate-unavailable line, whether the rate fetch gave a rate or not.
C5_PriceUnavailableReport ==
    (Ended /\ PoolOk /\ xmr_usd_price.r = "none" /\ usd_ghs_rate.r # "raised") =>
      /\ ReportDelivered
      /\ CountLine(NO_PRICE_TEXT) = 1
      /\ ~HasLine("Value (USD)")
      /\ ~HasLine("Value (GHS)")
      /\ ~HasLine(NO_RATE_TEXT)
\* Such a report was delivered although a rate was fetched.
C5_Witness ==
    /\ ReportDelivered /\ PoolOk
    /\ xmr_usd_price.r = "none"
    /\ PositiveNumber(usd_ghs_rate)
    /\ HasLine(NO_PRICE_TEXT)

\* C6: whenever the pool and price fetches succeed and the rate fetch is
\* unavailable, the final edit is the report (not the failure text); it has
\* a "Value (USD)" line immediately followed by "Could not fetch GHS
\* exchange rate to show value in Cedis." and no "Value (GHS)" line.
C6_RateUnavailableReport ==
    (Ended /\ PoolOk /\ PositiveNumber(xmr_usd_price) /\ usd_ghs_rate.r = "none") =>
      /\ ReportDelivered
      /\ ~FailureDelivered
      /\ \E i \in 1..(Len(ReportLines) - 1) :
           /\ ReportLines[i].text = "Value (USD)"
           /\ ReportLines[i + 1].text = NO_RATE_TEXT
      /\ CountLine("Value (USD)") = 1
      /\ ~HasLine("Value (GHS)")
\* Such a report was delivered with a usable key, the rate API having
\* failed.
C6_Witness ==
    /\ ReportDelivered /\ PoolOk
    /\ PositiveNumber(xmr_usd_price)
    /\ usd_ghs_rate.r = "none"
    /\ ~KeyAbsentOrPlaceholder
    /\ requests.rate = 1
    /\ HasLine(NO_RATE_TEXT)

\* C7: get_usd_to_ghs_rate called with a key that is None, empty or the
\* placeholder returns None without issuing a request; with any other key
\* it issues exactly one GET.
C7_NoRequestWithoutKey ==
    /\ ~RateCalled => requests.rate = 0
    /\ RateCalled =>
         IF KeyAbsentOrPlaceholder
         THEN requests.rate = 0 /\ usd_ghs_rate = None
         ELSE requests.rate = 1
\* The fetcher was called with the placeholder key.
C7_Witness ==
    /\ RateCalled
    /\ cfg.EXCHANGERATE_API_KEY = Str(PLACEHOLDER_KEY)
    /\ requests = [pool |-> 1, price |-> 1, rate |-> 0]
    /\ usd_ghs_rate = None

\* C8 (as stated): main aborts startup exactly when the bot token or the
\* wallet address is missing.
C8_AbortsOnlyWithoutTokenOrWallet ==
    mainpc # "start" =>
      (mainpc = "aborted" <=>
         \/ StrMissing(cfg.TELEGRAM_BOT_TOKEN)
         \/ SeqMissing(cfg.XMR_WALLET_ADDRESS))

\* C8 (amended): main aborts startup (builds no application, sets no
\* webhook, starts no listener) exactly when the bot token, the wallet
\* address or the webhook domain is missing; a missing exchange-rate key or
\* port never aborts startup, and a missing key only keeps the
\* "Value (GHS)" line out of the report.
C8_AbortsWithoutTokenWalletOrDomain ==
    /\ mainpc # "start" =>
         (mainpc = "aborted" <=>
            \/ ~cfg.TELEGRAM_BOT_TOKEN.set \/ cfg.TELEGRAM_BOT_TOKEN.val = ""
            \/ ~cfg.XMR_WALLET_ADDRESS.set \/ cfg.XMR_WALLET_ADDRESS.val = <<>>
            \/ ~cfg.WEBHOOK_DOMAIN.set \/ cfg.WEBHOOK_DOMAIN.val = "")
    /\ mainpc = "aborted" => application = NoApplication
    /\ mainpc \notin {"start", "aborted"} => application.built
    /\ (ReportDelivered /\ KeyAbsentOrPlaceholder) => ~HasLine("Value (GHS)")
\* Startup was aborted for the webhook domain alone.
C8_Witness ==
    /\ mainpc = "aborted"
    /\ ~StrMissing(cfg.TELEGRAM_BOT_TOKEN)
    /\ ~SeqMissing(cfg.XMR_WALLET_ADDRESS)
    /\ StrMissing(cfg.WEBHOOK_DOMAIN)
    /\ application = NoApplication

\* The pending balance in 10^-8 XMR.
C9_Balance == RoundDiv(C4_Atomic, 10000)
\* C9: whenever all three fetches succeed, the report has a "Value (USD)"
\* line and then a "Value (GHS)" line; the USD amount is balance x price
\* and the GHS amount balance x price x rate, each shown to 2 decimals,
\* balance being amtDue / 10^12 rounded to 8 decimals.
C9_Amounts ==
    (Ended /\ PoolOk /\ PositiveNumber(xmr_usd_price) /\ PositiveNumber(usd_ghs_rate)) =>
      /\ ReportDelivered
      /\ \E i, j \in DOMAIN ReportLines :
           /\ i < j
           /\ ReportLines[i].text = "Value (USD)"
           /\ ReportLines[i].amt = RoundDiv(C9_Balance * xmr_usd_price.v, 1000000)
           /\ ReportLines[j].text = "Value (GHS)"
           /\ ReportLines[j].amt =
                RoundDiv(C9_Balance * xmr_usd_price.v * usd_ghs_rate.v, 1000000)
      /\ CountLine("Value (USD)") = 1
      /\ CountLine("Value (GHS)") = 1
\* A report with 0.0001 XMR at 149 USD and 12 GHS per USD: 0.01 USD and
\* 0.18 GHS (not 12 times the rounded 0.01).
C9_Witness ==
    /\ ReportDelivered /\ PoolOk
    /\ poolResp.amtDue = J("int", 100000000)
    /\ xmr_usd_price.v = 149 /\ usd_ghs_rate.v = 12
    /\ \E i \in DOMAIN ReportLines :
         ReportLines[i] = Line("Value (USD)", 1)
    /\ \E j \in DOMAIN ReportLines :
         ReportLines[j] = Line("Value (GHS)", 18)

\* C10: application.shutdown() is called exactly once on every path that
\* follows a successful initialize() and reaches run_webhook, however
\* run_webhook ends; it is never called when a configuration check fails or
\* initialize() raises; and a failure of set_bot_webhook does not keep
\* run_webhook from being called.
C10_ShutdownOnce ==
    /\ mainpc = "done" =>
         /\ application.initialized
         /\ application.run_webhook_calls = 1
         /\ application.run_webhook_outcome \in RunWebhookEndings
         /\ application.shutdown_calls = 1
    /\ mainpc # "done" => application.shutdown_calls = 0
    /\ mainpc \in {"aborted", "init_failed"} =>
         application.run_webhook_calls = 0 /\ ~application.initialized
    /\ mainpc = "running" =>
         application.listening /\ application.set_webhook_calls = 1
\* run_webhook ended by SystemExit after the listener had started without a
\* webhook set, and shutdown() was called once.
C10_Witness ==
    /\ mainpc = "done"
    /\ application.run_webhook_outcome = "SystemExit"
    /\ ~application.webhook_set
    /\ application.set_webhook_calls = 1
    /\ application.shutdown_calls = 1

=============================================================================
